---------------------------- MODULE Spec2Model ----------------------------
(***************************************************************************)
(* A model of fvnbloom/pybloom.py: a Bloom filter over a packed array of   *)
(* int32 words, hashed with a seeded FNV-1a and double hashing, with       *)
(* union and a JSON/base64 persisted form.                                 *)
(*                                                                         *)
(* Machine integers are modelled as bit vectors (sequences of 0/1).  The   *)
(* @njit helpers take int32 arguments, compute in int64 (numba widens an   *)
(* int32 against an integer literal to int64) and truncate the result to   *)
(* int32 again.  A word of the bit array is modelled as the set of the     *)
(* indices of its set bits, bit 31 being the sign bit of the int32.        *)
(***************************************************************************)
EXTENDS Integers, Sequences, FiniteSets, TLC

----------------------------------------------------------------------------
(* Machine integers *)

\* width of a word of the bit array (dtype='int32'; b / 32, b % 32, n * 32)
WordBits == 32

\* width of the integers the compiled helpers compute in (int64)
WideBits == 64

Pow2(i) == 2 ^ i

\* A machine integer is the sequence of its 64 bits, least significant
\* first: x[i + 1] is bit i.  Bits fixes the value of such a sequence.
Bits(x) == x \o <<>>

\* bit i of the non-negative integer v < 2^31
BitOf(v, i) == IF i > 30 THEN 0 ELSE (v \div Pow2(i)) % 2

\* the 64-bit value of a signed 32-bit integer (sign extension)
FromInt32(v) ==
    LET low == IF v >= 0 THEN v ELSE (v + 1073741824) + 1073741824
    IN  Bits([i \in 1..WideBits |->
                IF i <= 31 THEN BitOf(low, i - 1) ELSE IF v < 0 THEN 1 ELSE 0])

\* the 64-bit value hi * 2^16 + lo, for 16-bit halves hi and lo
FromHalves(hi, lo) ==
    Bits([i \in 1..WideBits |->
            IF i <= 16 THEN BitOf(lo, i - 1)
            ELSE IF i <= 32 THEN BitOf(hi, i - 17) ELSE 0])

RECURSIVE SumBits(_, _)
SumBits(x, i) == IF i = 0 THEN 0 ELSE SumBits(x, i - 1) + x[i] * Pow2(i - 1)

\* the cast to int32: the low 32 bits, read as a two's complement number
ToInt32(x) ==
    IF x[32] = 1 THEN (SumBits(x, 31) - 1073741824) - 1073741824
    ELSE SumBits(x, 31)

\* the cast a value goes through when it is passed to an int32 parameter
Trunc32(x) == Bits([i \in 1..WideBits |-> IF i <= 32 THEN x[i] ELSE x[32]])

BvXor(x, y) == Bits([i \in 1..WideBits |-> (x[i] + y[i]) % 2])

BvAnd(x, y) == Bits([i \in 1..WideBits |-> x[i] * y[i]])

RECURSIVE Carries(_, _, _)
Carries(x, y, cs) ==
    IF Len(cs) = WideBits THEN cs
    ELSE LET i == Len(cs)
         IN  Carries(x, y, Append(cs, (x[i] + y[i] + cs[i]) \div 2))

\* x + y modulo 2^64
BvAdd(x, y) ==
    LET c == Carries(x, y, <<0>>)
    IN  Bits([i \in 1..WideBits |-> (x[i] + y[i] + c[i]) % 2])

\* x << k
BvShl(x, k) == Bits([i \in 1..WideBits |-> IF i > k THEN x[i - k] ELSE 0])

\* x >> k on a signed integer (arithmetic shift)
BvShr(x, k) ==
    Bits([i \in 1..WideBits |-> IF i + k <= WideBits THEN x[i + k] ELSE x[WideBits]])

BvIsZero(x) == \A i \in 1..WideBits : x[i] = 0

----------------------------------------------------------------------------
(* Hash engine *)

\* a * 16777619 mod 2**32
fnv_multiply(a0) ==
    LET a == Trunc32(a0)
    IN  Trunc32(BvAdd(a, BvAdd(BvShl(a, 1), BvAdd(BvShl(a, 4),
                BvAdd(BvShl(a, 7), BvAdd(BvShl(a, 8), BvShl(a, 24)))))))

fnv_mix(a0) ==
    LET a1 == Trunc32(a0)
        a2 == BvAdd(a1, BvShl(a1, 13))
        a3 == BvXor(a2, BvShr(a2, 7))
        a4 == BvAdd(a3, BvShl(a3, 3))
        a5 == BvXor(a4, BvShr(a4, 17))
        a6 == BvAdd(a5, BvShl(a5, 5))
    IN  ToInt32(BvAnd(a6, FromHalves(65535, 65535)))

\* 2166136261 = 0x811C9DC5, the FNV-1a 32-bit offset basis
OffsetBasis == FromHalves(33052, 40389)

RECURSIVE fnv_1a_loop(_, _, _)
fnv_1a_loop(v, i, a) ==
    IF i > Len(v) THEN a
    ELSE LET c  == FromInt32(v[i])
             d  == BvAnd(c, FromHalves(0, 65280))
             a1 == IF ~BvIsZero(d) THEN fnv_multiply(BvXor(a, BvShr(d, 8))) ELSE a
         IN  fnv_1a_loop(v, i + 1,
                         fnv_multiply(BvXor(a1, BvAnd(c, FromHalves(0, 255)))))

fnv_1a(v, seed) == fnv_mix(fnv_1a_loop(v, 1, BvXor(OffsetBasis, FromInt32(seed))))

----------------------------------------------------------------------------
(* Keys *)

\* the keys of the model, as sequences of code points: "a", "c", "e-acute"
Keys == {<<97>>, <<99>>, <<233>>}

\* UTF-8 encoding of one code point below 2048
EncodeChar(cp) ==
    IF cp < 128 THEN <<cp>>
    ELSE <<192 + (cp \div 64), 128 + (cp % 64)>>

RECURSIVE EncodeFrom(_, _)
EncodeFrom(key, i) ==
    IF i > Len(key) THEN <<>> ELSE EncodeChar(key[i]) \o EncodeFrom(key, i + 1)

\* key.encode()
_calculate_key(key) == EncodeFrom(key, 1)

\* the seed of the second hash
Seed2 == 1576284489

\* fnv_1a of the encoded keys under the two seeds, computed once
FnvTable ==
    [k \in {_calculate_key(key) : key \in Keys}, seed \in {0, Seed2} |->
        fnv_1a(k, seed)]

----------------------------------------------------------------------------
(* Location generator *)

\* the loop of bf_calculate_locations from index i (0-based) on; x is in
\* [0, m) because % takes the sign of the divisor, so x < 0 never holds
RECURSIVE locations_loop(_, _, _, _, _)
locations_loop(r, m, b, i, x) ==
    IF i >= Len(r) THEN r
    ELSE locations_loop([r EXCEPT ![i + 1] = IF x < 0 THEN x + m ELSE x],
                        m, b, i + 1, (x + (b % m)) % m)

\* bf_calculate_locations with the two hashes exchanged
bf_calculate_locations_swapped(r, m, key) ==
    LET a == FnvTable[key, Seed2]
        b == FnvTable[key, 0]
    IN  locations_loop(r, m, b, 0, a % m)

\* bf_calculate_locations(r, m, key) for m > 0: the buffer r, overwritten
bf_calculate_locations(r, m, key) ==
    LET a == FnvTable[key, 0]
        b == FnvTable[key, Seed2]
    IN  locations_loop(r, m, b, 0, a % m)

----------------------------------------------------------------------------
(* Bit array: a sequence of words, each the set of its set bit indices *)

ZeroWord == {}

RECURSIVE bf_test_from(_, _, _)
bf_test_from(locations, buckets, i) ==
    IF i > Len(locations) THEN TRUE
    ELSE LET b == locations[i]
         IN  IF (b % WordBits) \notin buckets[(b \div WordBits) + 1] THEN FALSE
             ELSE bf_test_from(locations, buckets, i + 1)

bf_test(locations, buckets) == bf_test_from(locations, buckets, 1)

RECURSIVE bf_add_from(_, _, _)
bf_add_from(locations, buckets, i) ==
    IF i > Len(locations) THEN buckets
    ELSE LET b == locations[i]
             w == (b \div WordBits) + 1
         IN  bf_add_from(locations,
                         [buckets EXCEPT ![w] = buckets[w] \cup {b % WordBits}],
                         i + 1)

\* bf_add with = in place of |=
RECURSIVE bf_add_assign_from(_, _, _)
bf_add_assign_from(locations, buckets, i) ==
    IF i > Len(locations) THEN buckets
    ELSE LET b == locations[i]
             w == (b \div WordBits) + 1
         IN  bf_add_assign_from(locations,
                                [buckets EXCEPT ![w] = {b % WordBits}], i + 1)

bf_add_assign(locations, buckets) == bf_add_assign_from(locations, buckets, 1)

\* the words of buckets after bf_add(locations, buckets, key)
bf_add(locations, buckets) == bf_add_from(locations, buckets, 1)

\* the loop of buckets_union with b1[i] = b2[i]
buckets_union_words_copy(b1, b2) == [i \in 1..Len(b1) |-> b2[i]]

\* the loop of buckets_union with & in place of |
buckets_union_words_and(b1, b2) == [i \in 1..Len(b1) |-> b1[i] \cap b2[i]]

\* the words of b1 after the loop of buckets_union, for len(b1) = len(b2)
buckets_union_words(b1, b2) == [i \in 1..Len(b1) |-> b1[i] \cup b2[i]]

----------------------------------------------------------------------------
(* Sizing.  error_rate is given in percent; the logarithms are fixed-point *)
(* in thousandths: math.log(2) = 0.693, math.log(2) * math.log(2) = 0.480. *)

Ln2Milli == 693

Ln2SqMilli == 480

\* -math.log(error_rate) in thousandths
NegLogMilli(error_rate) ==
    CASE error_rate = 25 -> 1386
      [] error_rate = 50 -> 693
      [] error_rate = 100 -> 0

\* round() of x thousandths: to the nearest integer, ties to even
RoundMilli(x) ==
    LET q == x \div 1000
        r == x % 1000
    IN  IF r < 500 THEN q
        ELSE IF r > 500 THEN q + 1
        ELSE IF q % 2 = 0 THEN q ELSE q + 1

\* math.ceil of x thousandths
CeilMilli(x) == (x + 999) \div 1000

Max(a, b) == IF a >= b THEN a ELSE b

\* num_bits in thousandths
num_bits_milli(capacity, error_rate) ==
    (capacity * NegLogMilli(error_rate) * 1000) \div Ln2SqMilli

\* create_empty with 0 < error_rate <= 1 as its first check
create_empty_le(capacity, error_rate) ==
    IF ~(0 < error_rate /\ error_rate <= 100) THEN
        [err |-> "ValueError", num_hashes |-> 0, n |-> 0]
    ELSE IF ~(capacity > 0) THEN
        [err |-> "ValueError", num_hashes |-> 0, n |-> 0]
    ELSE
        LET num_bits == num_bits_milli(capacity, error_rate)
        IN  [err |-> "none",
             num_hashes |->
                 Max(1, RoundMilli(((num_bits \div capacity) * Ln2Milli) \div 1000)),
             n |-> CeilMilli(num_bits \div WordBits)]

\* create_empty(capacity, error_rate): the error it raises, or num_hashes
\* and n of the filter it builds
create_empty(capacity, error_rate) ==
    IF ~(0 < error_rate /\ error_rate < 100) THEN
        [err |-> "ValueError", num_hashes |-> 0, n |-> 0]
    ELSE IF ~(capacity > 0) THEN
        [err |-> "ValueError", num_hashes |-> 0, n |-> 0]
    ELSE
        LET num_bits == num_bits_milli(capacity, error_rate)
        IN  [err |-> "none",
             num_hashes |->
                 Max(1, RoundMilli(((num_bits \div capacity) * Ln2Milli) \div 1000)),
             n |-> CeilMilli(num_bits \div WordBits)]

----------------------------------------------------------------------------
(* Serializer *)

\* byte j of a word, most significant byte first
ByteOfWord_big_endian(w, j) ==
    LET s[i \in 0..8] ==
            IF i = 0 THEN 0
            ELSE s[i - 1] + (IF (8 * (3 - j) + i - 1) \in w THEN Pow2(i - 1) ELSE 0)
    IN  s[8]

\* byte j (0..3) of a word, little-endian
ByteOfWord(w, j) ==
    LET s[i \in 0..8] ==
            IF i = 0 THEN 0
            ELSE s[i - 1] + (IF (8 * j + i - 1) \in w THEN Pow2(i - 1) ELSE 0)
    IN  s[8]

RECURSIVE tobytes(_)
tobytes(words) ==
    IF words = <<>> THEN <<>>
    ELSE <<ByteOfWord(Head(words), 0), ByteOfWord(Head(words), 1),
           ByteOfWord(Head(words), 2), ByteOfWord(Head(words), 3)>>
         \o tobytes(Tail(words))

\* the int32 with the four bytes b0..b3, least significant first
WordOfBytes(b0, b1, b2, b3) ==
    LET bs == <<b0, b1, b2, b3>>
    IN  {p \in 0..(WordBits - 1) : BitOf(bs[(p \div 8) + 1], p % 8) = 1}

\* np.frombuffer(bytes, dtype='int32'), for len(bytes) a multiple of 4
RECURSIVE frombuffer(_)
frombuffer(bytes) ==
    IF bytes = <<>> THEN <<>>
    ELSE <<WordOfBytes(bytes[1], bytes[2], bytes[3], bytes[4])>>
         \o frombuffer(SubSeq(bytes, 5, Len(bytes)))

\* base64 text is a sequence of alphabet indices 0..63; Pad is '='
Pad == 64

RECURSIVE b64encode(_)
b64encode(bytes) ==
    IF bytes = <<>> THEN <<>>
    ELSE IF Len(bytes) = 1 THEN
        <<bytes[1] \div 4, (bytes[1] % 4) * 16, Pad, Pad>>
    ELSE IF Len(bytes) = 2 THEN
        <<bytes[1] \div 4, (bytes[1] % 4) * 16 + (bytes[2] \div 16),
          (bytes[2] % 16) * 4, Pad>>
    ELSE
        <<bytes[1] \div 4, (bytes[1] % 4) * 16 + (bytes[2] \div 16),
          (bytes[2] % 16) * 4 + (bytes[3] \div 64), bytes[3] % 64>>
        \o b64encode(SubSeq(bytes, 4, Len(bytes)))

\* text that base64.b64decode accepts: whole quads, padding only at the end
b64valid(text) ==
    /\ Len(text) % 4 = 0
    /\ \A i \in 1..Len(text) :
          text[i] = Pad =>
             /\ i >= Len(text) - 1
             /\ \A j \in i..Len(text) : text[j] = Pad

RECURSIVE b64decode(_)
b64decode(text) ==
    IF text = <<>> THEN <<>>
    ELSE LET c1 == text[1]
             c2 == text[2]
             c3 == text[3]
             c4 == text[4]
             b1 == c1 * 4 + (c2 \div 16)
         IN  IF c3 = Pad THEN <<b1>>
             ELSE IF c4 = Pad THEN <<b1, (c2 % 16) * 16 + (c3 \div 4)>>
             ELSE <<b1, (c2 % 16) * 16 + (c3 \div 4), (c3 % 4) * 64 + c4>>
                  \o b64decode(SubSeq(text, 5, Len(text)))

\* json.dump of a non-negative int: its decimal digits
RECURSIVE json_int(_)
json_int(v) == IF v < 10 THEN <<v>> ELSE Append(json_int(v \div 10), v % 10)

\* json.load of a run of decimal digits
RECURSIVE json_parse_int(_)
json_parse_int(ds) ==
    IF Len(ds) = 1 THEN ds[1]
    ELSE json_parse_int(SubSeq(ds, 1, Len(ds) - 1)) * 10 + ds[Len(ds)]

\* the document save writes: dict(num_hashes=num_hashes, buckets=b64)
save_doc(num_hashes, words) ==
    [num_hashes |-> json_int(num_hashes), buckets |-> b64encode(tobytes(words))]

\* load can build a filter from the document
load_ok(doc) ==
    /\ b64valid(doc.buckets)
    /\ Len(b64decode(doc.buckets)) % 4 = 0

load_num_hashes(doc) == json_parse_int(doc.num_hashes)

load_words(doc) == frombuffer(b64decode(doc.buckets))

----------------------------------------------------------------------------
(* State *)

\* the number of filters a run builds
MaxFilters == 2

\* the number of calls a run makes
MaxCalls == 5

\* the arguments <<capacity, error_rate>> create_empty is called with;
\* error_rate in percent
CreateArgs ==
    {<<0, 25>>, <<-5, 25>>, <<10, 0>>, <<10, 100>>,
     <<10, 25>>, <<20, 25>>, <<10, 50>>, <<20, 50>>}

\* documents in the persisted format that were not written by save: no
\* hash and one zero word, one hash and no word, and a truncated array
ExternalDocs ==
    {[num_hashes |-> json_int(0), buckets |-> b64encode(<<0, 0, 0, 0>>)],
     [num_hashes |-> json_int(1), buckets |-> b64encode(<<>>)],
     [num_hashes |-> json_int(1), buckets |-> b64encode(<<1, 0>>)]}

VARIABLES
    filters,   \* the BloomFilter objects, by identity 1..Len(filters)
    heap,      \* the numpy arrays, by identity: their words and writeable flag
    disk,      \* the file: <<>> when absent, else <<document>>
    last,      \* the last call: its arguments, the error raised, its result
    hist,      \* per filter: how it was made and the keys put into it
    saved,     \* the filter as it was when the file was last written by save
    calls      \* the number of calls made so far

vars == <<filters, heap, disk, last, hist, saved, calls>>

FilterIds == 1..Len(filters)

words_of(f) == heap[filters[f].buckets].words

\* BloomFilter.__init__(num_hashes, buckets), buckets being array b of h
BloomFilter(h, num_hashes, b) ==
    [buckets |-> b,
     num_hashes |-> num_hashes,
     n |-> Len(h[b].words),
     m |-> Len(h[b].words) * WordBits,
     _locations |-> [i \in 1..num_hashes |-> 0]]

NoCall ==
    [op |-> "none", err |-> "none", f |-> 0, g |-> 0, key |-> <<>>,
     found |-> FALSE, ret |-> 0, capacity |-> 0, error_rate |-> 0]

NoSaved ==
    [f |-> 0, num_hashes |-> 0, n |-> 0, m |-> 0, words |-> <<>>, holds |-> {}]

Init ==
    /\ filters = <<>>
    /\ heap = <<>>
    /\ disk = <<>>
    /\ last = NoCall
    /\ hist = <<>>
    /\ saved = NoSaved
    /\ calls = 0

----------------------------------------------------------------------------
(* Operations *)

\* one more call is made
Tick ==
    /\ calls < MaxCalls
    /\ calls' = calls + 1

\* create_empty(capacity, error_rate)
CreateEmpty(capacity, error_rate) ==
    /\ Tick
    /\ LET c == create_empty(capacity, error_rate)
           call == [NoCall EXCEPT !.op = "create_empty", !.capacity = capacity,
                                  !.error_rate = error_rate]
       IN  IF c.err # "none" THEN
               /\ last' = [call EXCEPT !.err = c.err]
               /\ UNCHANGED <<filters, heap, disk, hist, saved>>
           ELSE
               /\ Len(filters) < MaxFilters
               /\ heap' = Append(heap, [words |-> [i \in 1..c.n |-> ZeroWord],
                                        readonly |-> FALSE])
               /\ filters' = Append(filters, BloomFilter(heap', c.num_hashes, Len(heap')))
               /\ hist' = Append(hist, [made_by |-> "create_empty", of |-> 0,
                                        capacity |-> capacity,
                                        error_rate |-> error_rate,
                                        added |-> {}, holds |-> {}])
               /\ last' = [call EXCEPT !.ret = Len(filters')]
               /\ UNCHANGED <<disk, saved>>

\* f.add(key)
Add(f, key) ==
    /\ Tick
    /\ LET self == filters[f]
           call == [NoCall EXCEPT !.op = "add", !.f = f, !.key = key]
       IN  IF self.m = 0 THEN
               \* a % m in bf_calculate_locations
               /\ last' = [call EXCEPT !.err = "ZeroDivisionError"]
               /\ UNCHANGED <<filters, heap, disk, hist, saved>>
           ELSE
               LET l == bf_calculate_locations(self._locations, self.m,
                                               _calculate_key(key))
               IN  /\ filters' = [filters EXCEPT ![f]._locations = l]
                   /\ IF heap[self.buckets].readonly THEN
                          \* bf_add does not compile for a read-only array
                          /\ last' = [call EXCEPT !.err = "TypingError"]
                          /\ UNCHANGED <<heap, disk, hist, saved>>
                      ELSE
                          /\ heap' = [heap EXCEPT ![self.buckets].words = bf_add(l, @)]
                          /\ hist' = [hist EXCEPT ![f].added = @ \cup {key},
                                                  ![f].holds = @ \cup {key}]
                          /\ last' = call
                          /\ UNCHANGED <<disk, saved>>

\* f.test(key), key in f
Test(f, key) ==
    /\ Tick
    /\ LET self == filters[f]
           call == [NoCall EXCEPT !.op = "test", !.f = f, !.key = key]
       IN  IF self.m = 0 THEN
               /\ last' = [call EXCEPT !.err = "ZeroDivisionError"]
               /\ UNCHANGED <<filters, heap, disk, hist, saved>>
           ELSE
               LET l == bf_calculate_locations(self._locations, self.m,
                                               _calculate_key(key))
               IN  /\ filters' = [filters EXCEPT ![f]._locations = l]
                   /\ last' = [call EXCEPT !.found = bf_test(l, words_of(f))]
                   /\ UNCHANGED <<heap, disk, hist, saved>>

\* buckets_union with return b2
buckets_union_ret_b2(h, b1, b2) ==
    IF h[b1].readonly THEN
        [err |-> "TypingError", heap |-> h, ret |-> 0]
    ELSE IF Len(h[b1].words) # Len(h[b2].words) THEN
        [err |-> "AssertionError", heap |-> h, ret |-> 0]
    ELSE
        [err |-> "none",
         heap |-> [h EXCEPT ![b1].words =
                       buckets_union_words(h[b1].words, h[b2].words)],
         ret |-> b2]

\* buckets_union(b1, b2) on arrays b1 and b2 of heap h: the error raised,
\* the heap afterwards and the array returned
buckets_union(h, b1, b2) ==
    IF h[b1].readonly THEN
        \* the store b1[i] = ... does not compile for a read-only array
        [err |-> "TypingError", heap |-> h, ret |-> 0]
    ELSE IF Len(h[b1].words) # Len(h[b2].words) THEN
        [err |-> "AssertionError", heap |-> h, ret |-> 0]
    ELSE
        [err |-> "none",
         heap |-> [h EXCEPT ![b1].words =
                       buckets_union_words(h[b1].words, h[b2].words)],
         ret |-> b1]

\* union without assert self.num_hashes == other.num_hashes
union_unchecked(h, self, other) ==
    LET u == buckets_union(h, self.buckets, other.buckets)
    IN  IF u.err # "none" THEN [u EXCEPT !.ret = self.buckets] ELSE u

\* self.union(other) on heap h: the error raised, the heap afterwards and
\* the array self.buckets is bound to
union(h, self, other) ==
    IF self.num_hashes # other.num_hashes THEN
        [err |-> "AssertionError", heap |-> h, ret |-> self.buckets]
    ELSE
        LET u == buckets_union(h, self.buckets, other.buckets)
        IN  IF u.err # "none" THEN [u EXCEPT !.ret = self.buckets] ELSE u

\* f.union(g)
Union(f, g) ==
    /\ Tick
    /\ LET u == union(heap, filters[f], filters[g])
           call == [NoCall EXCEPT !.op = "union", !.f = f, !.g = g]
       IN  IF u.err # "none" THEN
               /\ last' = [call EXCEPT !.err = u.err]
               /\ UNCHANGED <<filters, heap, disk, hist, saved>>
           ELSE
               /\ heap' = u.heap
               /\ filters' = [filters EXCEPT ![f].buckets = u.ret]
               /\ hist' = [hist EXCEPT ![f].holds = @ \cup hist[g].holds]
               /\ last' = [call EXCEPT !.ret = f]
               /\ UNCHANGED <<disk, saved>>

\* f.save(file)
Save(f) ==
    /\ Tick
    /\ LET self == filters[f]
       IN  /\ disk' = <<save_doc(self.num_hashes, words_of(f))>>
           /\ saved' = [f |-> f, num_hashes |-> self.num_hashes, n |-> self.n,
                        m |-> self.m, words |-> words_of(f),
                        holds |-> hist[f].holds]
           /\ last' = [NoCall EXCEPT !.op = "save", !.f = f]
           /\ UNCHANGED <<filters, heap, hist>>

\* load(file)
Load ==
    /\ Tick
    /\ LET call == [NoCall EXCEPT !.op = "load"]
       IN  IF disk = <<>> THEN
               /\ last' = [call EXCEPT !.err = "FileNotFoundError"]
               /\ UNCHANGED <<filters, heap, disk, hist, saved>>
           ELSE IF ~load_ok(disk[1]) THEN
               \* binascii.Error from b64decode or ValueError from np.frombuffer
               /\ last' = [call EXCEPT !.err = "ValueError"]
               /\ UNCHANGED <<filters, heap, disk, hist, saved>>
           ELSE
               /\ Len(filters) < MaxFilters
               /\ heap' = Append(heap, [words |-> load_words(disk[1]),
                                        readonly |-> TRUE])
               /\ filters' = Append(filters,
                                    BloomFilter(heap', load_num_hashes(disk[1]), Len(heap')))
               /\ hist' = Append(hist, [made_by |-> "load", of |-> saved.f,
                                        capacity |-> 0, error_rate |-> 0,
                                        added |-> {}, holds |-> saved.holds])
               /\ last' = [call EXCEPT !.ret = Len(filters')]
               /\ UNCHANGED <<disk, saved>>

\* a document in the persisted format is put in place of the file
PutFile(doc) ==
    /\ Tick
    /\ disk' = <<doc>>
    /\ saved' = NoSaved
    /\ last' = [NoCall EXCEPT !.op = "put"]
    /\ UNCHANGED <<filters, heap, hist>>

Next ==
    \/ \E args \in CreateArgs : CreateEmpty(args[1], args[2])
    \/ \E f \in FilterIds, key \in Keys : Add(f, key)
    \/ \E f \in FilterIds, key \in Keys : Test(f, key)
    \/ \E f \in FilterIds, g \in FilterIds : Union(f, g)
    \/ \E f \in FilterIds : Save(f)
    \/ Load
    \/ \E doc \in ExternalDocs : PutFile(doc)

Spec == Init /\ [][Next]_vars

----------------------------------------------------------------------------
(* Properties *)

\* f.test(key) in the current state
TestNow(f, key) ==
    /\ filters[f].m > 0
    /\ bf_test(bf_calculate_locations(filters[f]._locations, filters[f].m,
                                      _calculate_key(key)),
               words_of(f))

\* the test of key on a filter with the given num_hashes, m and words
TestOn(num_hashes, m, words, key) ==
    bf_test(bf_calculate_locations([i \in 1..num_hashes |-> 0], m,
                                   _calculate_key(key)),
            words)

\* (a + i * b) mod m for i = 0 .. num_hashes - 1, non-negative
ClosedForm(num_hashes, m, key) ==
    LET a == FnvTable[_calculate_key(key), 0]
        b == FnvTable[_calculate_key(key), Seed2]
    IN  [i \in 1..num_hashes |-> ((a % m) + (i - 1) * (b % m)) % m]

\* C1: no false negatives.  In every state, every key that was added to a
\* filter tests true on it, whatever calls followed the add, and a test call
\* for such a key has returned true.
C1_NoFalseNegatives ==
    /\ \A f \in FilterIds : \A key \in hist[f].added : TestNow(f, key)
    /\ (last.op = "test" /\ last.key \in hist[last.f].added)
          => (last.err = "none" /\ last.found)

C1_Witness ==
    /\ last.op = "test"
    /\ last.found
    /\ last.key \in hist[last.f].added
    /\ Cardinality(hist[last.f].added) >= 2

\* C2: union correctness.  When f1.union(f2) is called on filters made by
\* create_empty with the same capacity and error rate (hence the same
\* num_hashes) that hold disjoint key sets S1 and S2, the call succeeds and
\* the filter it returns tests true for every key of S1 and of S2.
C2_UnionCorrect ==
    [][\A f \in FilterIds, g \in FilterIds :
          ( /\ last'.op = "union" /\ last'.f = f /\ last'.g = g
            /\ hist[f].made_by = "create_empty"
            /\ hist[g].made_by = "create_empty"
            /\ hist[f].capacity = hist[g].capacity
            /\ hist[f].error_rate = hist[g].error_rate
            /\ filters[f].num_hashes = filters[g].num_hashes
            /\ hist[f].holds \cap hist[g].holds = {} )
          => /\ last'.err = "none"
             /\ \A r \in FilterIds :
                   last'.ret = r =>
                      \A key \in hist[f].holds \cup hist[g].holds : TestNow(r, key)'
      ]_vars

C2_Witness ==
    /\ last.op = "union" /\ last.err = "none" /\ last.f # last.g
    /\ hist[last.f].made_by = "create_empty"
    /\ hist[last.g].made_by = "create_empty"
    /\ hist[last.f].capacity = hist[last.g].capacity
    /\ hist[last.f].error_rate = hist[last.g].error_rate
    /\ hist[last.f].added # {}
    /\ hist[last.g].added # {}
    /\ hist[last.f].added \cap hist[last.g].added = {}

\* C3: serialization round trip.  A load of the file written by save succeeds
\* and returns a filter with the num_hashes, n, m and words the saved filter
\* had, which gives the same test result for every key, true for every key
\* the saved filter held.
C3_RoundTrip ==
    (last.op = "load" /\ saved.f # 0)
       => /\ last.err = "none"
          /\ last.ret \in FilterIds
          /\ filters[last.ret].num_hashes = saved.num_hashes
          /\ filters[last.ret].n = saved.n
          /\ filters[last.ret].m = saved.m
          /\ words_of(last.ret) = saved.words
          /\ \A key \in Keys :
                saved.m > 0 =>
                   (TestNow(last.ret, key)
                       <=> TestOn(saved.num_hashes, saved.m, saved.words, key))
          /\ \A key \in saved.holds : TestNow(last.ret, key)

C3_Witness ==
    /\ last.op = "load" /\ last.err = "none" /\ saved.f # 0
    /\ saved.holds # {}
    /\ \E i \in 1..Len(saved.words) : 31 \in saved.words[i]

\* C4: construction validation.  A create_empty call with capacity <= 0 or
\* an error rate not strictly between 0 and 1 raises ValueError and makes no
\* filter; any other call returns a new filter whose words are all zero.
C4_Construction ==
    [][last'.op = "create_empty" =>
          IF last'.capacity <= 0
                \/ ~(0 < last'.error_rate /\ last'.error_rate < 100)
          THEN /\ last'.err = "ValueError"
               /\ last'.ret = 0
               /\ filters' = filters
               /\ heap' = heap
          ELSE /\ last'.err = "none"
               /\ Len(filters') = Len(filters) + 1
               /\ last'.ret = Len(filters')
               /\ LET words == heap'[filters'[Len(filters')].buckets].words
                  IN  \A i \in 1..Len(words) : words[i] = {}
      ]_vars

C4_Witness ==
    /\ last.op = "create_empty"
    /\ last.err = "ValueError"
    /\ last.capacity > 0
    /\ Len(filters) >= 1

\* C5: incompatible union.  A union call on filters whose num_hashes differ
\* or whose arrays differ in length raises, and leaves every array and every
\* filter as it was.
C5_IncompatibleUnion ==
    [][\A f \in FilterIds, g \in FilterIds :
          ( /\ last'.op = "union" /\ last'.f = f /\ last'.g = g
            /\ \/ filters[f].num_hashes # filters[g].num_hashes
               \/ Len(words_of(f)) # Len(words_of(g)) )
          => /\ last'.err # "none"
             /\ heap' = heap
             /\ filters' = filters
      ]_vars

C5_Witness ==
    /\ last.op = "union"
    /\ last.err = "AssertionError"
    /\ filters[last.f].num_hashes = filters[last.g].num_hashes
    /\ Len(words_of(last.f)) # Len(words_of(last.g))
    /\ hist[last.g].added # {}

\* C6: union frame.  A successful f1.union(f2) returns f1, leaves f1 bound
\* to its own array, makes each word of it the OR of its old value and the
\* word of f2, and leaves the array and num_hashes of f2 as they were; two
\* filters never share an array, and an add on one filter changes no word of
\* another.
C6_UnionFrame ==
    [][/\ \A f \in FilterIds, g \in FilterIds :
             (last'.op = "union" /\ last'.err = "none"
                 /\ last'.f = f /\ last'.g = g)
             => /\ last'.ret = f
                /\ filters'[f].buckets = filters[f].buckets
                /\ Len(words_of(f)') = Len(words_of(f))
                /\ \A i \in 1..Len(words_of(f)) :
                      words_of(f)'[i] = words_of(f)[i] \cup words_of(g)[i]
                /\ words_of(g)' = [i \in 1..Len(words_of(g)) |->
                                      IF f = g THEN words_of(f)'[i]
                                      ELSE words_of(g)[i]]
                /\ filters'[g].num_hashes = filters[g].num_hashes
       /\ \A f \in FilterIds, g \in FilterIds :
             f # g => filters'[f].buckets # filters'[g].buckets
       /\ \A f \in FilterIds, g \in FilterIds :
             (last'.op = "add" /\ last'.f = f /\ g # f)
             => words_of(g)' = words_of(g)
      ]_vars

C6_Witness ==
    /\ last.op = "add" /\ last.err = "none"
    /\ hist[last.f].holds # hist[last.f].added
    /\ \E g \in FilterIds : g # last.f /\ words_of(g) # words_of(last.f)

\* C7: a filter returned by load of a saved file can be mutated.  An add on
\* it succeeds and the key tests true afterwards, and a union with it as the
\* receiver succeeds when num_hashes and the array lengths agree.
C7_LoadedMutable ==
    /\ (last.op = "add" /\ hist[last.f].made_by = "load" /\ hist[last.f].of # 0)
          => (last.err = "none" /\ TestNow(last.f, last.key))
    /\ ( /\ last.op = "union"
         /\ hist[last.f].made_by = "load" /\ hist[last.f].of # 0
         /\ filters[last.f].num_hashes = filters[last.g].num_hashes
         /\ Len(words_of(last.f)) = Len(words_of(last.g)) )
          => last.err = "none"

\* C8: monotone state.  No call clears a set bit of a filter or changes the
\* length of its array, its num_hashes, n or m, and a test call changes no
\* array at all.
C8_Monotone ==
    [][/\ \A f \in FilterIds :
             /\ Len(words_of(f)') = Len(words_of(f))
             /\ \A i \in 1..Len(words_of(f)) :
                   words_of(f)[i] \subseteq words_of(f)'[i]
             /\ filters'[f].num_hashes = filters[f].num_hashes
             /\ filters'[f].n = filters[f].n
             /\ filters'[f].m = filters[f].m
       /\ last'.op = "test" => heap' = heap
      ]_vars

C8_Witness ==
    /\ last.op = "test"
    /\ last.found
    /\ last.key \in hist[last.f].holds \ hist[last.f].added

\* C9: structural invariant.  Every filter has m = n * 32, n the number of
\* words of its array, and num_hashes >= 1.
C9_Structural ==
    \A f \in FilterIds :
       /\ filters[f].m = filters[f].n * 32
       /\ filters[f].n = Len(words_of(f))
       /\ filters[f].num_hashes >= 1

\* C10: location sequence.  After an add or test call with a key on a filter
\* with m > 0, the location buffer of the filter holds exactly num_hashes
\* indices, each in [0, m), the i-th (from 0) being (a + i * b) mod m for
\* the two hashes a and b of the key: a value fixed by the key, m and
\* num_hashes, whatever the buffer held from earlier calls.
C10_Locations ==
    (last.op \in {"add", "test"} /\ filters[last.f].m > 0)
       => /\ last.err # "ZeroDivisionError"
          /\ Len(filters[last.f]._locations) = filters[last.f].num_hashes
          /\ \A i \in 1..Len(filters[last.f]._locations) :
                filters[last.f]._locations[i] \in 0..(filters[last.f].m - 1)
          /\ filters[last.f]._locations
                = ClosedForm(filters[last.f].num_hashes, filters[last.f].m, last.key)

C10_Witness ==
    /\ last.op = "add"
    /\ filters[last.f].num_hashes >= 2
    /\ filters[last.f].m = 64
    /\ Cardinality(hist[last.f].added) >= 2

=============================================================================
